---- MODULE Spec2Model ----
(***************************************************************************)
(* Model of streamlit_app.py: a file-aware chatbot.  Text is a sequence of *)
(* one-character strings; fixed prose of the program is carried as one     *)
(* piece of such a sequence.                                               *)
(***************************************************************************)
EXTENDS Integers, Sequences, FiniteSets, TLC

VARIABLES PyPDF2, docx, uploaded, uploaded_files, messages, submitted, run, call

vars == <<PyPDF2, docx, uploaded, uploaded_files, messages, submitted, run, call>>

----------------------------------------------------------------------------
(* Bounds of the model *)

\* chunk_text's default max_chars, 1200 in the source, scaled to the model's texts
MaxChars == 3
\* build_answer_from_matches's snippet limit, 1200 in the source, scaled likewise
SnippetMax == 3
\* number of chat prompts handled in one session
MaxQueries == 2
\* longest text handed to chunk_text when it is called on its own
MaxTextLen == 6
\* largest max_chars handed to chunk_text when it is called on its own
MaxMaxChars == 3
\* largest top_k handed to simple_retrieve when it is called on its own
MaxTopK == 3
\* snippets handed to build_answer_from_matches when it is called on its own
\* are up to one character longer than the snippet limit
MaxSnippetLen == SnippetMax + 1

\* the first 3000 characters of a text are previewed
PreviewLimit == 3000
\* the chat handler asks for the five best matches
ChatTopK == 5

----------------------------------------------------------------------------
(* Characters and strings *)

Min(a, b) == IF a <= b THEN a ELSE b
Max(a, b) == IF a >= b THEN a ELSE b

IsSpace(c) == c \in {" ", "\n", "\t"}

\* the characters matched by \w
IsWord(c) == c \in {"a", "b", "c", "d", "e", "f", "k", "n", "o", "p", "t", "x",
                    "A", "B", "D", "F", "K", "P", "9", "é"}

Lower(c) ==
  CASE c = "A" -> "a" [] c = "B" -> "b" [] c = "D" -> "d" [] c = "F" -> "f"
    [] c = "K" -> "k" [] c = "P" -> "p" [] OTHER -> c

lower(s) == [i \in 1..Len(s) |-> Lower(s[i])]

RECURSIVE Concat(_)
Concat(ss) == IF ss = <<>> THEN <<>> ELSE Head(ss) \o Concat(Tail(ss))

\* sep.join(ss)
RECURSIVE Join(_, _)
Join(sep, ss) ==
  IF ss = <<>> THEN <<>>
  ELSE IF Len(ss) = 1 THEN ss[1]
  ELSE ss[1] \o sep \o Join(sep, Tail(ss))

\* s.strip()
RECURSIVE LStrip(_)
LStrip(s) == IF s # <<>> /\ IsSpace(Head(s)) THEN LStrip(Tail(s)) ELSE s
RECURSIVE RStrip(_)
RStrip(s) ==
  IF s # <<>> /\ IsSpace(s[Len(s)]) THEN RStrip(SubSeq(s, 1, Len(s) - 1)) ELSE s
strip(s) == RStrip(LStrip(s))

\* s.endswith(suffix)
endswith(s, suffix) ==
  /\ Len(s) >= Len(suffix)
  /\ SubSeq(s, Len(s) - Len(suffix) + 1, Len(s)) = suffix

\* re.findall(r"\w+", s): the maximal runs of word characters, left to right
RECURSIVE FindWords(_, _, _)
FindWords(s, i, cur) ==
  IF i > Len(s) THEN (IF cur = <<>> THEN <<>> ELSE <<cur>>)
  ELSE IF IsWord(s[i]) THEN FindWords(s, i + 1, Append(cur, s[i]))
  ELSE (IF cur = <<>> THEN <<>> ELSE <<cur>>) \o FindWords(s, i + 1, <<>>)

findall_w(s) == FindWords(s, 1, <<>>)

\* words.count(t)
RECURSIVE count(_, _)
count(words, t) ==
  IF words = <<>> THEN 0
  ELSE (IF Head(words) = t THEN 1 ELSE 0) + count(Tail(words), t)

----------------------------------------------------------------------------
(* chunk_text *)

\* re.split(r"\n{1,}", text): the pieces between runs of newlines
RECURSIVE SplitNewlines(_, _, _)
SplitNewlines(s, i, cur) ==
  IF i > Len(s) THEN <<cur>>
  ELSE IF s[i] = "\n"
       THEN IF i > 1 /\ s[i - 1] = "\n"
            THEN SplitNewlines(s, i + 1, cur)
            ELSE <<cur>> \o SplitNewlines(s, i + 1, <<>>)
       ELSE SplitNewlines(s, i + 1, Append(cur, s[i]))

split_paragraphs(text) == SplitNewlines(text, 1, <<>>)

IsTerminator(c) == c \in {".", "!", "?"}

\* re.split(r"(?<=[.!?])\s+", p): a run of whitespace splits when the
\* character before the run is a terminator
RECURSIVE SplitSentences(_, _, _, _)
SplitSentences(s, i, cur, inSep) ==
  IF i > Len(s) THEN <<cur>>
  ELSE IF inSep /\ IsSpace(s[i]) THEN SplitSentences(s, i + 1, cur, TRUE)
  ELSE IF IsSpace(s[i]) /\ i > 1 /\ IsTerminator(s[i - 1])
       THEN <<cur>> \o SplitSentences(s, i + 1, <<>>, TRUE)
  ELSE SplitSentences(s, i + 1, Append(cur, s[i]), FALSE)

split_sentences(p) == SplitSentences(p, 1, <<>>, FALSE)

\* SentenceLoop with the overflow test leaving out the length of buf
RECURSIVE SentenceLoop_IgnoreBuf(_, _, _, _)
SentenceLoop_IgnoreBuf(sentences, chunks, buf, max_chars) ==
  IF sentences = <<>> THEN <<chunks, buf>>
  ELSE LET s == Head(sentences) IN
       IF Len(s) + 1 > max_chars
       THEN SentenceLoop_IgnoreBuf(Tail(sentences),
                         IF buf # <<>> THEN Append(chunks, strip(buf)) ELSE chunks,
                         s, max_chars)
       ELSE SentenceLoop_IgnoreBuf(Tail(sentences), chunks,
                         IF buf # <<>> THEN buf \o <<" ">> \o s ELSE s, max_chars)

\* the inner loop of chunk_text over the sentences of a large paragraph;
\* the result is <<chunks, buf>> after the last sentence
RECURSIVE SentenceLoop(_, _, _, _)
SentenceLoop(sentences, chunks, buf, max_chars) ==
  IF sentences = <<>> THEN <<chunks, buf>>
  ELSE LET s == Head(sentences) IN
       IF Len(buf) + Len(s) + 1 > max_chars
       THEN SentenceLoop(Tail(sentences),
                         IF buf # <<>> THEN Append(chunks, strip(buf)) ELSE chunks,
                         s, max_chars)
       ELSE SentenceLoop(Tail(sentences), chunks,
                         IF buf # <<>> THEN buf \o <<" ">> \o s ELSE s, max_chars)

\* ParagraphLoop without the flush of current when a paragraph overflows it
RECURSIVE ParagraphLoop_NoFlush(_, _, _, _)
ParagraphLoop_NoFlush(paragraphs, chunks, current, max_chars) ==
  IF paragraphs = <<>>
  THEN IF current # <<>> THEN Append(chunks, strip(current)) ELSE chunks
  ELSE LET p == strip(Head(paragraphs))
           rest == Tail(paragraphs)
       IN
       IF p = <<>> THEN ParagraphLoop_NoFlush(rest, chunks, current, max_chars)
       ELSE IF Len(current) + Len(p) + 1 > max_chars
       THEN IF Len(p) > max_chars
            THEN LET r == SentenceLoop(split_sentences(p), chunks, <<>>, max_chars)
                     done == IF r[2] # <<>> THEN Append(r[1], strip(r[2])) ELSE r[1]
                 IN ParagraphLoop_NoFlush(rest, done, <<>>, max_chars)
            ELSE ParagraphLoop_NoFlush(rest, chunks, p, max_chars)
       ELSE ParagraphLoop_NoFlush(rest, chunks,
                          IF current # <<>> THEN current \o <<"\n">> \o p ELSE p,
                          max_chars)

\* the outer loop of chunk_text over the paragraphs
RECURSIVE ParagraphLoop(_, _, _, _)
ParagraphLoop(paragraphs, chunks, current, max_chars) ==
  IF paragraphs = <<>>
  THEN IF current # <<>> THEN Append(chunks, strip(current)) ELSE chunks
  ELSE LET p == strip(Head(paragraphs))
           rest == Tail(paragraphs)
       IN
       IF p = <<>> THEN ParagraphLoop(rest, chunks, current, max_chars)
       ELSE IF Len(current) + Len(p) + 1 > max_chars
       THEN LET flushed == IF current # <<>> THEN Append(chunks, strip(current))
                           ELSE chunks
            IN
            IF Len(p) > max_chars
            THEN LET r == SentenceLoop(split_sentences(p), flushed, <<>>, max_chars)
                     done == IF r[2] # <<>> THEN Append(r[1], strip(r[2])) ELSE r[1]
                 IN ParagraphLoop(rest, done, <<>>, max_chars)
            ELSE ParagraphLoop(rest, flushed, p, max_chars)
       ELSE ParagraphLoop(rest, chunks,
                          IF current # <<>> THEN current \o <<"\n">> \o p ELSE p,
                          max_chars)

chunk_text(text, max_chars) ==
  IF text = <<>> THEN <<>>
  ELSE ParagraphLoop(split_paragraphs(text), <<>>, <<>>, max_chars)

----------------------------------------------------------------------------
(* Extraction.  A file is [name, data]; data is a sequence of bytes, each  *)
(* written as the character it encodes, "é" standing for the byte 0xE9.    *)

\* s.split(sep) for a one-character separator
RECURSIVE SplitOn(_, _, _, _)
SplitOn(s, sep, i, cur) ==
  IF i > Len(s) THEN <<cur>>
  ELSE IF s[i] = sep THEN <<cur>> \o SplitOn(s, sep, i + 1, <<>>)
  ELSE SplitOn(s, sep, i + 1, Append(cur, s[i]))

\* PyPDF2.PdfReader: the library reads a buffer that starts with "%" as a
\* document whose pages are separated by "/", and raises on any other buffer
PdfReader(file_bytes) ==
  IF file_bytes # <<>> /\ Head(file_bytes) = "%"
  THEN [ok |-> TRUE, pages |-> SplitOn(Tail(file_bytes), "/", 1, <<>>)]
  ELSE [ok |-> FALSE, pages |-> <<>>]

\* docx.Document: the library reads a buffer that starts with "K" as a
\* document whose paragraphs are separated by "/", and raises on any other
Document(file_bytes) ==
  IF file_bytes # <<>> /\ Head(file_bytes) = "K"
  THEN [ok |-> TRUE, paragraphs |-> SplitOn(Tail(file_bytes), "/", 1, <<>>)]
  ELSE [ok |-> FALSE, paragraphs |-> <<>>]

extract_text_from_pdf(file_bytes) ==
  IF ~PyPDF2 THEN <<>>
  ELSE LET reader == PdfReader(file_bytes) IN
       IF reader.ok THEN Join(<<"\n">>, reader.pages) ELSE <<>>

extract_text_from_docx(file_bytes) ==
  IF ~docx THEN <<>>
  ELSE LET document == Document(file_bytes) IN
       IF document.ok THEN Join(<<"\n">>, document.paragraphs) ELSE <<>>

\* data.decode("utf-8"): a lone 0xE9 is not valid UTF-8
decode_utf8(data) ==
  IF \E i \in 1..Len(data) : data[i] = "é"
  THEN [ok |-> FALSE, text |-> <<>>]
  ELSE [ok |-> TRUE, text |-> data]

\* data.decode("latin-1"): every byte is a character
decode_latin1(data) == [ok |-> TRUE, text |-> data]

\* str(data) of a bytes object: its repr
ReprByte(c, quote) ==
  CASE c = "\n" -> <<"\\", "n">>
    [] c = "\t" -> <<"\\", "t">>
    [] c = "\\" -> <<"\\", "\\">>
    [] c = "é" -> <<"\\", "x", "e", "9">>
    [] c = quote -> <<"\\", c>>
    [] OTHER -> <<c>>

str_bytes(data) ==
  LET has(q) == \E i \in 1..Len(data) : data[i] = q
      quote == IF has("'") /\ ~has("\"") THEN "\"" ELSE "'"
  IN <<"b", quote>> \o Concat([i \in 1..Len(data) |-> ReprByte(data[i], quote)])
     \o <<quote>>

parse_uploaded_file(uploaded_file) ==
  LET name == lower(uploaded_file.name)
      data == uploaded_file.data
      text == IF endswith(name, <<".", "p", "d", "f">>)
              THEN extract_text_from_pdf(data)
              ELSE IF endswith(name, <<".", "d", "o", "c", "x">>)
              THEN extract_text_from_docx(data)
              ELSE IF decode_utf8(data).ok THEN decode_utf8(data).text
              ELSE IF decode_latin1(data).ok THEN decode_latin1(data).text
              ELSE <<>>
  IN IF text = <<>> THEN str_bytes(data) ELSE text

\* index_uploaded_files appends one record per file to the session's list
RECURSIVE index_uploaded_files(_, _)
index_uploaded_files(files, batch) ==
  IF batch = <<>> THEN files
  ELSE LET f == Head(batch)
           parsed_text == parse_uploaded_file(f)
       IN index_uploaded_files(
            Append(files, [name |-> f.name, text |-> parsed_text,
                           chunks |-> chunk_text(parsed_text, MaxChars)]),
            Tail(batch))

\* Reindex without the reset of the session's list
Reindex_Append(files, widget) ==
  IF widget # <<>> THEN index_uploaded_files(files, widget) ELSE files

\* Reindex that also empties the list when the uploader is empty
Reindex_Always(files, widget) == index_uploaded_files(<<>>, widget)

\* the uploader block: a non-empty widget value re-indexes from scratch
Reindex(files, widget) ==
  IF widget # <<>> THEN index_uploaded_files(<<>>, widget) ELSE files

----------------------------------------------------------------------------
(* Retrieval *)

\* SumCounts counting a repeated query token once
RECURSIVE SumCounts_Dedup(_, _)
SumCounts_Dedup(words, tokens) ==
  IF tokens = <<>> THEN 0
  ELSE (IF \E i \in 2..Len(tokens) : tokens[i] = Head(tokens) THEN 0
        ELSE count(words, Head(tokens)))
       + SumCounts_Dedup(words, Tail(tokens))

RECURSIVE SumCounts(_, _)
SumCounts(words, tokens) ==
  IF tokens = <<>> THEN 0
  ELSE count(words, Head(tokens)) + SumCounts(words, Tail(tokens))

\* the scan of one document's chunks, i being the 0-based chunk index
RECURSIVE ScanChunks(_, _, _)
ScanChunks(uf, i, tokens) ==
  IF i >= Len(uf.chunks) THEN <<>>
  ELSE LET chunk == uf.chunks[i + 1]
           words == findall_w(lower(chunk))
           score == SumCounts(words, tokens)
       IN (IF words # <<>> /\ score > 0
           THEN <<[file |-> uf.name, chunk |-> chunk, score |-> score, index |-> i]>>
           ELSE <<>>)
          \o ScanChunks(uf, i + 1, tokens)

RECURSIVE ScanFiles(_, _)
ScanFiles(files, tokens) ==
  IF files = <<>> THEN <<>>
  ELSE ScanChunks(Head(files), 0, tokens) \o ScanFiles(Tail(files), tokens)

\* InsertByScore that puts an element before the placed elements of equal score
RECURSIVE InsertByScore_Unstable(_, _)
InsertByScore_Unstable(sorted, r) ==
  IF sorted = <<>> THEN <<r>>
  ELSE IF Head(sorted).score > r.score
       THEN <<Head(sorted)>> \o InsertByScore_Unstable(Tail(sorted), r)
       ELSE <<r>> \o sorted

\* list.sort(key=score, reverse=True): stable, so an element goes after
\* every element already placed whose score is at least its own
RECURSIVE InsertByScore(_, _)
InsertByScore(sorted, r) ==
  IF sorted = <<>> THEN <<r>>
  ELSE IF Head(sorted).score >= r.score
       THEN <<Head(sorted)>> \o InsertByScore(Tail(sorted), r)
       ELSE <<r>> \o sorted

RECURSIVE SortByScore(_, _)
SortByScore(results, sorted) ==
  IF results = <<>> THEN sorted
  ELSE SortByScore(Tail(results), InsertByScore(sorted, Head(results)))

\* Slice that keeps one element too many
Slice_OffByOne(results, top_k) ==
  IF top_k >= 0 THEN SubSeq(results, 1, Min(top_k + 1, Len(results)))
  ELSE SubSeq(results, 1, Max(0, Len(results) + top_k))

\* results[:top_k], a negative top_k counting from the end
Slice(results, top_k) ==
  IF top_k >= 0 THEN SubSeq(results, 1, Min(top_k, Len(results)))
  ELSE SubSeq(results, 1, Max(0, Len(results) + top_k))

simple_retrieve(files, query, top_k) ==
  LET tokens == findall_w(lower(query)) IN
  IF tokens = <<>> THEN <<>>
  ELSE Slice(SortByScore(ScanFiles(files, tokens), <<>>), top_k)

----------------------------------------------------------------------------
(* Answer composition *)

NoMatchAnswer ==
  <<"I couldn't find any passages in the uploaded files that match your question. Try a different question or upload more files.">>

AnswerIntro ==
  <<"I searched your uploaded files and found these relevant passages:">>

AnswerOutro ==
  <<"\nIf you'd like, ask me to summarize these passages, or ask a follow-up that references a file name.">>

NoFilesAnswer ==
  <<"No files have been uploaded. This assistant can only answer based on the files you upload. Upload one or more files (txt, pdf, docx) and ask a question about their contents.">>

PreviewPlaceholder == <<"(Could not extract a preview for this file.)">>

Truncate(snippet) ==
  IF Len(snippet) > SnippetMax
  THEN SubSeq(snippet, 1, SnippetMax) \o <<".", ".", ".">>
  ELSE snippet

\* the backtick character, which cannot be written inside a TLA+ string
Backtick == "<backtick>"

\* repl comparing the word as written
repl_CaseSensitive(w, qtokens) ==
  IF w \in qtokens THEN <<Backtick>> \o w \o <<Backtick>> ELSE w

\* repl: a matched word is wrapped when its lowercase form is a query token
repl(w, qtokens) ==
  IF lower(w) \in qtokens THEN <<Backtick>> \o w \o <<Backtick>> ELSE w

\* re.sub(r"\w+", repl, text)
RECURSIVE Sub(_, _, _, _)
Sub(text, i, w, qtokens) ==
  IF i > Len(text) THEN (IF w = <<>> THEN <<>> ELSE repl(w, qtokens))
  ELSE IF IsWord(text[i]) THEN Sub(text, i + 1, Append(w, text[i]), qtokens)
  ELSE (IF w = <<>> THEN <<>> ELSE repl(w, qtokens)) \o <<text[i]>>
       \o Sub(text, i + 1, <<>>, qtokens)

highlight(text, query) ==
  LET tokens == findall_w(lower(query))
      qtokens == {tokens[i] : i \in 1..Len(tokens)}
  IN Sub(text, 1, <<>>, qtokens)

MatchLine(m, query) ==
  <<"From ">> \o m.file \o <<" (score=", ToString(m.score), "):", "\n", "> ">>
  \o highlight(Truncate(m.chunk), query)

build_answer_from_matches(matches, query) ==
  IF matches = <<>> THEN NoMatchAnswer
  ELSE Join(<<"\n", "\n">>,
            <<AnswerIntro>>
            \o [i \in 1..Len(matches) |-> MatchLine(matches[i], query)]
            \o <<AnswerOutro>>)

----------------------------------------------------------------------------
(* The session: every user interaction runs the script from top to bottom *)

FileA == [name |-> <<"n", ".", "t", "x", "t">>,
          data |-> <<"a", " ", "b", "\n", "a", " ", "a">>]
FileB == [name |-> <<"n", ".", "t", "x", "t">>, data |-> <<"é", " ", "B">>]
FileP == [name |-> <<"p", ".", "P", "D", "F">>, data |-> <<"%", "a", "/", "b">>]
FileQ == [name |-> <<"q", ".", "p", "d", "f">>, data |-> <<"x">>]
FileD == [name |-> <<"d", ".", "d", "o", "c", "x">>, data |-> <<"K", "b", " ", "a">>]
FileE == [name |-> <<"e", ".", "D", "O", "C", "X">>, data |-> <<>>]

\* the upload batches a user submits
Batches ==
  {<<FileA>>, <<FileA, FileB>>, <<FileB, FileA>>, <<FileP, FileD>>,
   <<FileQ>>, <<FileE, FileP>>}

\* the prompts a user types; the chat input never yields an empty prompt
Queries == {<<"B", " ", "a">>, <<"?">>}

None == <<>>

\* the preview block: one widget per indexed file
Preview(uf) ==
  LET preview == SubSeq(uf.text, 1, Min(PreviewLimit, Len(uf.text))) IN
  [label |-> uf.name \o <<" (", ToString(Len(uf.chunks)), " chunks)">>,
   widget |-> IF preview = <<>> THEN "write" ELSE "text_area",
   body |-> IF preview = <<>> THEN PreviewPlaceholder ELSE preview]

Previews(files) == [i \in 1..Len(files) |-> Preview(files[i])]

\* the chat handler's choice of response
Respond(files, prompt) ==
  IF files # <<>>
  THEN build_answer_from_matches(simple_retrieve(files, prompt, ChatTopK), prompt)
  ELSE NoFilesAnswer

\* ChatAppend that records the answer only
ChatAppend_AnswerOnly(msgs, prompt, assistant_response) ==
  Append(msgs, [role |-> "assistant", content |-> assistant_response])

\* the chat handler's two appends to st.session_state.messages
ChatAppend(msgs, prompt, assistant_response) ==
  Append(Append(msgs, [role |-> "user", content |-> prompt]),
         [role |-> "assistant", content |-> assistant_response])

\* one run of the script with the uploader holding widget and the chat input
\* returning prompt
Script(event, widget, prompt) ==
  LET files == Reindex(uploaded_files, widget) IN
  /\ uploaded_files' = files
  /\ messages' = IF prompt # None
                 THEN ChatAppend(messages, prompt, Respond(files, prompt))
                 ELSE messages
  /\ run' = [event |-> event,
             prompt |-> prompt,
             previews |-> Previews(files),
             retrieved |-> prompt # None /\ files # <<>>,
             response |-> IF prompt # None THEN Respond(files, prompt) ELSE None]

NoCall == [fn |-> "none"]

Idle == [event |-> "start", prompt |-> None, previews |-> <<>>,
         retrieved |-> FALSE, response |-> None]

Init ==
  /\ PyPDF2 \in BOOLEAN
  /\ docx \in BOOLEAN
  /\ uploaded = <<>>
  /\ uploaded_files = <<>>
  /\ messages = <<>>
  /\ submitted = <<>>
  /\ run = Idle
  /\ call = NoCall

\* the user puts a batch of files into the uploader
UploadEvent(batch) ==
  /\ uploaded' = batch
  /\ submitted' = batch
  /\ Script("upload", batch, None)
  /\ UNCHANGED <<PyPDF2, docx, call>>

\* the user removes every file from the uploader
ClearEvent ==
  /\ uploaded # <<>>
  /\ uploaded' = <<>>
  /\ Script("clear", <<>>, None)
  /\ UNCHANGED <<PyPDF2, docx, submitted, call>>

\* the user sends a prompt; the uploader keeps its value
QueryEvent(prompt) ==
  /\ Len(messages) < 2 * MaxQueries
  /\ Script("query", uploaded, prompt)
  /\ UNCHANGED <<PyPDF2, docx, uploaded, submitted, call>>

Next ==
  \/ \E batch \in Batches : UploadEvent(batch)
  \/ ClearEvent
  \/ \E prompt \in Queries : QueryEvent(prompt)

Spec == Init /\ [][Next]_vars

----------------------------------------------------------------------------
(* The functions on their own: Init draws the arguments, one step calls *)

SessionAtRest ==
  /\ uploaded = <<>>
  /\ uploaded_files = <<>>
  /\ messages = <<>>
  /\ submitted = <<>>
  /\ run = Idle

StringsOver(alphabet, n) == UNION {[1..k -> alphabet] : k \in 0..n}

\* chunk_text(text, max_chars)
ChunkTexts == StringsOver({"a", ".", " ", "\n"}, MaxTextLen)

InitChunk ==
  /\ PyPDF2 = TRUE
  /\ docx = TRUE
  /\ SessionAtRest
  /\ call \in {[fn |-> "chunk_text", text |-> t, max_chars |-> m,
                done |-> FALSE, ret |-> <<>>] :
               t \in ChunkTexts, m \in 0..MaxMaxChars}

CallChunkText ==
  /\ call.fn = "chunk_text"
  /\ ~call.done
  /\ call' = [call EXCEPT !.done = TRUE,
                          !.ret = chunk_text(call.text, call.max_chars)]
  /\ UNCHANGED <<PyPDF2, docx, uploaded, uploaded_files, messages, submitted, run>>

NextChunk == CallChunkText

SpecChunk == InitChunk /\ [][NextChunk]_vars

\* simple_retrieve(query, top_k) over an indexed upload
RetrieveBatches == Batches \cup {<<>>, <<FileA, FileB, FileA>>}

RetrieveQueries ==
  Queries \cup {<<>>, <<" ">>, <<"a">>, <<"A", " ", "a">>, <<"x", " ", "b">>}

InitRetrieve ==
  /\ PyPDF2 \in BOOLEAN
  /\ docx \in BOOLEAN
  /\ \E batch \in RetrieveBatches :
       /\ uploaded = batch
       /\ submitted = batch
       /\ uploaded_files = index_uploaded_files(<<>>, batch)
  /\ messages = <<>>
  /\ run = Idle
  /\ call \in {[fn |-> "simple_retrieve", query |-> q, top_k |-> k,
                done |-> FALSE, ret |-> <<>>] :
               q \in RetrieveQueries, k \in -2..MaxTopK}

CallSimpleRetrieve ==
  /\ call.fn = "simple_retrieve"
  /\ ~call.done
  /\ call' = [call EXCEPT !.done = TRUE,
                          !.ret = simple_retrieve(uploaded_files, call.query,
                                                  call.top_k)]
  /\ UNCHANGED <<PyPDF2, docx, uploaded, uploaded_files, messages, submitted, run>>

NextRetrieve == CallSimpleRetrieve

SpecRetrieve == InitRetrieve /\ [][NextRetrieve]_vars

\* build_answer_from_matches(matches, query)
Snippets == StringsOver({"a", "A", "b", " "}, MaxSnippetLen) \ {<<>>}

\* the snippets that appear in the two-match lists
ShortSnippets ==
  {t \in Snippets : Len(t) <= 2 \/ (Len(t) > SnippetMax /\ t[1] = "a" /\ t[2] = " ")}

AnswerQueries ==
  {<<>>, <<"a">>, <<"B">>, <<"a", "b">>, <<"A", " ", "b">>, <<"a", " ", "a">>}

Match(file, snippet) ==
  [file |-> file, chunk |-> snippet, score |-> 1, index |-> 0]

InitAnswer ==
  /\ PyPDF2 = TRUE
  /\ docx = TRUE
  /\ SessionAtRest
  /\ call \in {[fn |-> "build_answer_from_matches", matches |-> ms, query |-> q,
                done |-> FALSE, ret |-> <<>>] :
               ms \in {<<Match(FileA.name, t)>> : t \in Snippets}
                      \cup {<<Match(FileA.name, t), Match(FileP.name, u)>> :
                            t \in ShortSnippets, u \in ShortSnippets},
               q \in AnswerQueries}

CallBuildAnswer ==
  /\ call.fn = "build_answer_from_matches"
  /\ ~call.done
  /\ call' = [call EXCEPT !.done = TRUE,
                          !.ret = build_answer_from_matches(call.matches,
                                                            call.query)]
  /\ UNCHANGED <<PyPDF2, docx, uploaded, uploaded_files, messages, submitted, run>>

NextAnswer == CallBuildAnswer

SpecAnswer == InitAnswer /\ [][NextAnswer]_vars

----------------------------------------------------------------------------
(* Properties.  Tokens are described here by position, apart from the scan *)
(* the program performs.                                                   *)

\* position i begins a maximal run of word characters of s
TokenStart(s, i) == IsWord(s[i]) /\ (i = 1 \/ ~IsWord(s[i - 1]))

\* position i ends a maximal run of word characters of s
TokenEnd(s, i) == IsWord(s[i]) /\ (i = Len(s) \/ ~IsWord(s[i + 1]))

\* the lowercase form of the maximal run of word characters around position i
TokenAround(s, i) ==
  LET first == CHOOSE j \in 1..i :
                 TokenStart(s, j) /\ \A k \in j..i : IsWord(s[k])
      last == CHOOSE j \in i..Len(s) :
                TokenEnd(s, j) /\ \A k \in i..j : IsWord(s[k])
  IN lower(SubSeq(s, first, last))

TokenStarts(s) == {i \in 1..Len(s) : TokenStart(s, i)}

TokenSet(s) == {TokenAround(s, i) : i \in TokenStarts(s)}

\* the pairs (query token occurrence, chunk token occurrence) that agree
OverlapScore(query, chunk) ==
  Cardinality({pair \in TokenStarts(query) \X TokenStarts(chunk) :
                 TokenAround(query, pair[1]) = TokenAround(chunk, pair[2])})

\* the chunks of the corpus as <<document position, 0-based chunk index>>
ChunkPositions ==
  UNION {{<<d, i>> : i \in 0..Len(uploaded_files[d].chunks) - 1} :
         d \in 1..Len(uploaded_files)}

ChunkAt(pos) == uploaded_files[pos[1]].chunks[pos[2] + 1]

PositiveCount(query) ==
  Cardinality({pos \in ChunkPositions : OverlapScore(query, ChunkAt(pos)) > 0})

\* pos is met before other in the traversal of the corpus
Before(pos, other) ==
  pos[1] < other[1] \/ (pos[1] = other[1] /\ pos[2] < other[2])

Retrieved == call.fn = "simple_retrieve" /\ call.done

\* C1: the corpus holds one entry per item of the most recently submitted
\* batch, in batch order, and nothing else (empty before any batch), and a
\* query event leaves the corpus as it was
C1_CorpusIsLastBatch ==
  /\ [](/\ Len(uploaded_files) = Len(submitted)
        /\ \A i \in 1..Len(uploaded_files) :
             /\ uploaded_files[i].name = submitted[i].name
             /\ uploaded_files[i].text = parse_uploaded_file(submitted[i]))
  /\ [][run'.event = "query" => uploaded_files' = uploaded_files]_vars

\* a second batch, with two files of one name, has replaced a first one,
\* each batch having been queried
C1_Witness ==
  /\ Len(uploaded_files) = 2
  /\ uploaded_files[1].name = uploaded_files[2].name
  /\ Len(messages) = 4
  /\ messages[1].content = messages[3].content
  /\ messages[2].content # NoFilesAnswer
  /\ messages[4].content # messages[2].content

C3_RankedStably ==
  Retrieved =>
    \E at \in [1..Len(call.ret) -> ChunkPositions] :
      /\ \A n \in 1..Len(call.ret) :
           /\ uploaded_files[at[n][1]].name = call.ret[n].file
           /\ at[n][2] = call.ret[n].index
           /\ ChunkAt(at[n]) = call.ret[n].chunk
      /\ \A n, k \in 1..Len(call.ret) :
           n < k => /\ call.ret[n].score >= call.ret[k].score
                    /\ call.ret[n].score = call.ret[k].score
                         => Before(at[n], at[k])

\* the result holds a tie between distinct matches and a drop in score
C3_Witness ==
  /\ Retrieved
  /\ \E n \in 1..Len(call.ret) - 1 :
       /\ call.ret[n].score = call.ret[n + 1].score
       /\ call.ret[n] # call.ret[n + 1]
  /\ \E n \in 1..Len(call.ret) - 1 : call.ret[n].score > call.ret[n + 1].score

\* C4 as stated: for every top_k the result has at most top_k matches and
\* exactly min(top_k, number of chunks of positive score)
C4_Claim ==
  Retrieved =>
    /\ Len(call.ret) <= call.top_k
    /\ Len(call.ret) = Min(call.top_k, PositiveCount(call.query))

\* C4: for every top_k that is not negative the result has at most top_k
\* matches and exactly min(top_k, number of chunks of positive score)
C4_TopKBound ==
  (Retrieved /\ call.top_k >= 0) =>
    /\ Len(call.ret) <= call.top_k
    /\ Len(call.ret) = Min(call.top_k, PositiveCount(call.query))

\* more chunks match than top_k allows
C4_Witness ==
  /\ Retrieved
  /\ call.top_k >= 1
  /\ PositiveCount(call.query) > call.top_k
  /\ Len(call.ret) = call.top_k

Chunked == call.fn = "chunk_text" /\ call.done

\* s holds no newline and no sentence boundary: it is one sentence
SingleSentence(s) ==
  /\ \A i \in 1..Len(s) : s[i] # "\n"
  /\ \A i \in 1..Len(s) - 1 : ~(IsTerminator(s[i]) /\ IsSpace(s[i + 1]))

\* s occurs in text as written
OccursIn(s, text) ==
  \E i \in 1..Len(text) - Len(s) + 1 : SubSeq(text, i, i + Len(s) - 1) = s

\* C5: a chunk is at most max_chars long, unless it is one sentence of the
\* text, as written, that is longer than max_chars on its own
C5_ChunkLengthBound ==
  Chunked =>
    \A n \in 1..Len(call.ret) :
      \/ Len(call.ret[n]) <= call.max_chars
      \/ SingleSentence(call.ret[n]) /\ OccursIn(call.ret[n], call.text)

\* an over-length sentence stands between two other chunks
C5_Witness ==
  /\ Chunked
  /\ call.max_chars >= 1
  /\ \E n \in 2..Len(call.ret) - 1 :
       /\ Len(call.ret[n]) > call.max_chars
       /\ Len(call.ret[n - 1]) = call.max_chars

\* s.split(): the maximal runs of characters that are not whitespace
RECURSIVE Fields(_, _, _)
Fields(s, i, cur) ==
  IF i > Len(s) THEN (IF cur = <<>> THEN <<>> ELSE <<cur>>)
  ELSE IF IsSpace(s[i])
       THEN (IF cur = <<>> THEN <<>> ELSE <<cur>>) \o Fields(s, i + 1, <<>>)
       ELSE Fields(s, i + 1, Append(cur, s[i]))

\* C6: the chunks, in output order, hold the words of the text, each once and
\* in the order of the text; only whitespace differs
C6_ChunksKeepContent ==
  Chunked =>
    Concat([n \in 1..Len(call.ret) |-> Fields(call.ret[n], 1, <<>>)])
      = Fields(call.text, 1, <<>>)

\* the two sentences of an over-length paragraph follow the chunk that was
\* flushed before it
C6_Witness ==
  /\ Chunked
  /\ call.max_chars >= 1
  /\ Len(call.ret) = 3
  /\ Len(call.ret[2]) + 1 + Len(call.ret[3]) > call.max_chars
  /\ call.text = call.ret[1] \o <<"\n">> \o call.ret[2] \o <<" ">> \o call.ret[3]

\* the file is a .pdf or .docx whose backend is absent or fails to decode it
ExtractionFails(f) ==
  \/ /\ endswith(lower(f.name), <<".", "p", "d", "f">>)
     /\ (~PyPDF2 \/ ~PdfReader(f.data).ok)
  \/ /\ endswith(lower(f.name), <<".", "d", "o", "c", "x">>)
     /\ (~docx \/ ~Document(f.data).ok)

\* C7 as stated: a .pdf or .docx whose backend is absent or whose decoding
\* fails is indexed with empty text and previewed by the placeholder
C7_Claim ==
  \A i \in 1..Len(uploaded_files) :
    (i <= Len(submitted) /\ ExtractionFails(submitted[i])) =>
      /\ uploaded_files[i].text = <<>>
      /\ run.previews[i].widget = "write"
      /\ run.previews[i].body = PreviewPlaceholder

\* C8: a query before any upload is answered by the no-files message without
\* a retrieval, and a query after an upload that indexed a document never is
C8_NoFilesGuidance ==
  run.event = "query" =>
    /\ run.response = messages[Len(messages)].content
    /\ submitted = <<>> => (run.response = NoFilesAnswer /\ ~run.retrieved)
    /\ submitted # <<>> => (run.response # NoFilesAnswer /\ run.retrieved)

\* a query before any upload, and a later one after the uploader was emptied
C8_Witness ==
  /\ run.event = "query"
  /\ Len(messages) = 4
  /\ messages[2].content = NoFilesAnswer
  /\ messages[4].content # NoFilesAnswer
  /\ uploaded = <<>>

\* C9: every event keeps the earlier messages in place; an upload appends
\* nothing, and a query appends the user's prompt and then the answer given
C9_TranscriptAppendOnly ==
  [][\/ /\ run'.event = "query"
        /\ messages' = messages \o
                         <<[role |-> "user", content |-> run'.prompt],
                           [role |-> "assistant", content |-> run'.response]>>
     \/ /\ run'.event \in {"upload", "clear"}
        /\ messages' = messages]_vars

\* an upload has followed two queries, one of them on an empty corpus
C9_Witness ==
  /\ run.event = "upload"
  /\ Len(messages) = 4
  /\ messages[2].content = NoFilesAnswer
  /\ messages[4].content \notin {NoFilesAnswer, NoMatchAnswer}

Answered == call.fn = "build_answer_from_matches" /\ call.done

\* the snippet as it goes into the answer
Shown(snippet) ==
  IF Len(snippet) <= SnippetMax THEN snippet
  ELSE [i \in 1..SnippetMax + 3 |-> IF i <= SnippetMax THEN snippet[i] ELSE "."]

\* position i of the shown snippet lies in a token that is a query token
Hit(shown, query, i) ==
  IsWord(shown[i]) /\ TokenAround(shown, i) \in TokenSet(query)

\* the shown snippet with a backtick before and after every token that is a
\* query token, and nothing else changed
Marked(shown, query) ==
  Concat([i \in 1..Len(shown) |->
            (IF Hit(shown, query, i) /\ TokenStart(shown, i)
             THEN <<Backtick>> ELSE <<>>)
            \o <<shown[i]>>
            \o (IF Hit(shown, query, i) /\ TokenEnd(shown, i)
                THEN <<Backtick>> ELSE <<>>)])

\* C10: in the answer for a non-empty match list, a token of the shown
\* snippet is wrapped in backticks exactly when its lowercase form is one of
\* the query's lowercase tokens, and the rest of the snippet is unchanged
C10_HighlightsQueryTokens ==
  (Answered /\ call.matches # <<>>) =>
    call.ret =
      Join(<<"\n", "\n">>,
           <<AnswerIntro>>
           \o [n \in 1..Len(call.matches) |->
                 <<"From ">> \o call.matches[n].file
                 \o <<" (score=", ToString(call.matches[n].score), "):", "\n", "> ">>
                 \o Marked(Shown(call.matches[n].chunk), call.query)]
           \o <<AnswerOutro>>)

\* a truncated snippet with a highlighted capitalised token, and a snippet
\* with a token that contains a query token without being one
C10_Witness ==
  /\ Answered
  /\ Len(call.matches) = 2
  /\ LET first == Shown(call.matches[1].chunk)
         second == Shown(call.matches[2].chunk)
     IN /\ Len(call.matches[1].chunk) > SnippetMax
        /\ \E i \in 1..Len(first) :
             Hit(first, call.query, i) /\ Lower(first[i]) # first[i]
        /\ \E i \in 1..Len(second) :
             /\ IsWord(second[i])
             /\ ~Hit(second, call.query, i)
             /\ \E q \in TokenSet(call.query) :
                  /\ Len(q) < Len(TokenAround(second, i))
                  /\ OccursIn(q, TokenAround(second, i))

====
